---------------------------- MODULE Spec2Model ----------------------------
(***************************************************************************)
(* The j0 orchestrator: the session store (SessionManager), the three      *)
(* entry paths of Execute (CLI exec, HTTP POST /sessions/{id}/execute and  *)
(* the j0_execute tool) and the Judge0 client's submit/poll protocol.      *)
(*                                                                         *)
(* Spec        : the store, its on-disk mirror and the request handlers   *)
(*               of one process, with process restart; every file         *)
(*               operation succeeds.                                      *)
(* SpecFaulty  : the same with file operations that fail, one Execute at   *)
(*               a time.                                                   *)
(* SpecExecute : Execute, SetEnv and CloseSession requests on sessions     *)
(*               that have been created.                                   *)
(* SpecClient  : one call of Judge0Client.Execute, request by request.     *)
(* SpecPoll    : one Execute request from the handler through the client  *)
(*               and back.                                                 *)
(* SpecEnv     : SetEnv and Execute requests on one session of each of    *)
(*               the languages prepareCodeWithEnv tells apart.            *)
(* SpecLock    : the requests of one server process with the lock of the   *)
(*               store taken and released in separate steps.               *)
(* SpecLockFair: SpecLock under fair scheduling of the requests.           *)
(*                                                                         *)
(* A j0 command of the CLI is a process of its own: NewSessionManager,     *)
(* one request, exit.  Here it is a Restart followed by a request of path  *)
(* "cli"; the model also lets a "cli" request follow other requests on the *)
(* same store, which only adds behaviours.                                 *)
(***************************************************************************)
EXTENDS Integers, Sequences, FiniteSets, TLC

(***************************************************************************)
(* Bounds of the model.                                                    *)
(***************************************************************************)
NumIDs   == 2    \* values the 4 random bytes of generateID can take
NumTasks == 2    \* Execute requests
MaxFaults == 1   \* file operations that fail
NumExecIDs == 1  \* values the random bytes of an execution id can take
NumCalls == 3    \* requests of SpecLock

(***************************************************************************)
(* Program constants.                                                      *)
(***************************************************************************)
maxAttempts      == 30    \* waitForResult: polls per job
TerminalStatus   == 3     \* waitForResult: first "finished" status id
StatusCreated    == 201   \* createSubmission: the success status
LanguageBash     == 46
LanguagePython3  == 71
LanguageGo       == 60
DefaultLines     == 100   \* handleGetLog, logCmd, invokeMCPGetLog: lines

(***************************************************************************)
(* Strings.  A Go string is a byte string; it is modelled as a sequence of *)
(* chunks, each a piece of valid UTF-8 text, or BadByte (one byte that is  *)
(* not valid UTF-8), or RuneError (U+FFFD).                                *)
(***************************************************************************)
EmptyStr  == << >>
BadByte   == "\\xff"
RuneError == "\\ufffd"

\* encoding/json, both directions: a string is coerced to valid UTF-8, each
\* invalid byte replaced by U+FFFD.
RECURSIVE ToValidUTF8(_)
ToValidUTF8(s) ==
    IF s = << >> THEN << >>
    ELSE <<IF Head(s) = BadByte THEN RuneError ELSE Head(s)>> \o ToValidUTF8(Tail(s))

\* fmt %q (strconv.Quote): double quotes around the escaped text; an invalid
\* byte is written as the escape \xff.
RECURSIVE Escape(_)
Escape(s) ==
    IF s = << >> THEN << >>
    ELSE <<IF Head(s) = BadByte THEN "\\\\xff" ELSE Head(s)>> \o Escape(Tail(s))
Quote(s) == <<"\"">> \o Escape(s) \o <<"\"">>

Tasks == 1..NumTasks
Paths == {"cli", "http", "mcp"}

\* generateID: prefix + "-" + hex of 4 random bytes; n is the random value.
generateID(prefix, n) == <<prefix, n>>
Rand    == 1..NumIDs
SessIDs == {generateID("sess", n) : n \in Rand}
ExecRand == 1..NumExecIDs

LanguageRuby       == 72
LanguageRust       == 73
LanguageC          == 50
LanguageCPP        == 54
LanguageJavaScript == 63

LanguageMap ==
    ("bash" :> LanguageBash) @@ ("shell" :> LanguageBash) @@ ("sh" :> LanguageBash) @@
    ("python" :> LanguagePython3) @@ ("python3" :> LanguagePython3) @@
    ("go" :> LanguageGo) @@ ("golang" :> LanguageGo) @@
    ("javascript" :> LanguageJavaScript) @@ ("js" :> LanguageJavaScript) @@
    ("node" :> LanguageJavaScript) @@ ("ruby" :> LanguageRuby) @@
    ("rust" :> LanguageRust) @@ ("c" :> LanguageC) @@ ("cpp" :> LanguageCPP) @@
    ("c++" :> LanguageCPP)

\* GetLanguageID: the id and whether the name is in the map (err == nil).
GetLanguageID(language) ==
    IF language \in DOMAIN LanguageMap
    THEN [id |-> LanguageMap[language], ok |-> TRUE]
    ELSE [id |-> 0, ok |-> FALSE]

(***************************************************************************)
(* Inputs the requests are drawn from.                                     *)
(***************************************************************************)
Languages == {"bash", "cobol", ""}
Names     == {EmptyStr}
Keys      == {<<"FOO">>}
Values    == {<<"bar">>, <<"baz">>}
Codes     == {<<"echo ", BadByte>>, EmptyStr}
\* what the engine can answer for a finished job (decoded from its JSON)
EngineResults ==
    { [Stdout |-> <<"hi">>, Stderr |-> EmptyStr,   ExitCode |-> 0, StatusID |-> 3],
      [Stdout |-> EmptyStr, Stderr |-> <<"boom">>, ExitCode |-> 1, StatusID |-> 11] }
NoResult == [Stdout |-> EmptyStr, Stderr |-> EmptyStr, ExitCode |-> 0, StatusID |-> 0]

(***************************************************************************)
(* Session and Execution values, and their JSON form.                      *)
(***************************************************************************)
\* make(map[string]string)
EmptyEnv == [k \in {} |-> EmptyStr]

\* a faulty variant of NewSession: the session starts in the third status
\* the Session type names
NewSessionPaused(id, language, name) ==
    [ ID |-> id, Name |-> name, Language |-> language,
      State |-> [Env |-> [k \in {} |-> << >>], History |-> << >>],
      LogFile |-> id, Status |-> "paused" ]

\* CreateSession: the Session literal.  The timestamps CreatedAt and UpdatedAt
\* are not part of the model: nothing reads them.
NewSession(id, language, name) ==
    [ ID |-> id, Name |-> name, Language |-> language,
      State |-> [Env |-> EmptyEnv, History |-> << >>],
      LogFile |-> id, Status |-> "active" ]

\* a faulty variant of NewExecution: what the program wrote to stderr is
\* recorded after its output, in the one field
NewExecutionMerged(code, result, startTime, duration) ==
    [ ID |-> generateID("exec", 0), Code |-> code,
      Output |-> result.Stdout \o result.Stderr, Stderr |-> EmptyStr,
      ExitCode |-> result.ExitCode, Time |-> startTime, Duration |-> duration ]

\* handlers: the Execution literal (ID is assigned by AddExecution)
NewExecution(code, result, startTime, duration) ==
    [ ID |-> generateID("exec", 0), Code |-> code, Output |-> result.Stdout,
      Stderr |-> result.Stderr, ExitCode |-> result.ExitCode,
      Time |-> startTime, Duration |-> duration ]

\* a field tagged omitempty is left out when it is the empty string
OmitEmpty(field, v) == IF v = EmptyStr THEN [x \in {} |-> EmptyStr] ELSE (field :> ToValidUTF8(v))
FieldOr(doc, field) == IF field \in DOMAIN doc THEN doc[field] ELSE EmptyStr

RECURSIVE MarshalHistory(_)
RECURSIVE UnmarshalHistory(_)

MarshalExecution(e) ==
    [ id |-> e.ID, code |-> ToValidUTF8(e.Code), output |-> ToValidUTF8(e.Output),
      exit_code |-> e.ExitCode, time |-> e.Time, duration_ms |-> e.Duration ]
    @@ OmitEmpty("stderr", e.Stderr)

UnmarshalExecution(d) ==
    [ ID |-> d.id, Code |-> ToValidUTF8(d.code), Output |-> ToValidUTF8(d.output),
      Stderr |-> ToValidUTF8(FieldOr(d, "stderr")), ExitCode |-> d.exit_code,
      Time |-> d.time, Duration |-> d.duration_ms ]

MarshalHistory(h) ==
    IF h = << >> THEN << >> ELSE <<MarshalExecution(Head(h))>> \o MarshalHistory(Tail(h))
UnmarshalHistory(h) ==
    IF h = << >> THEN << >> ELSE <<UnmarshalExecution(Head(h))>> \o UnmarshalHistory(Tail(h))

\* json.MarshalIndent(session)
MarshalSession(s) ==
    [ id |-> s.ID, language |-> s.Language,
      state |-> [ env |-> [k \in DOMAIN s.State.Env |-> ToValidUTF8(s.State.Env[k])],
                  history |-> MarshalHistory(s.State.History) ],
      log_file |-> s.LogFile, status |-> s.Status ]
    @@ OmitEmpty("name", s.Name)

\* json.Unmarshal(data, &session)
UnmarshalSession(d) ==
    [ ID |-> d.id, Name |-> ToValidUTF8(FieldOr(d, "name")), Language |-> d.language,
      State |-> [ Env |-> [k \in DOMAIN d.state.env |-> ToValidUTF8(d.state.env[k])],
                  History |-> UnmarshalHistory(d.state.history) ],
      LogFile |-> d.log_file, Status |-> d.status ]

(***************************************************************************)
(* Files.  A snapshot file holds a whole JSON document, or what a failed   *)
(* write left of it (os.WriteFile truncates, then writes).                 *)
(***************************************************************************)
WriteOutcomes == {"ok", "error", "torn"}
WriteFile(d, id, doc, w) ==
    CASE w = "ok"    -> (id :> [ok |-> TRUE, doc |-> doc]) @@ d
      [] w = "error" -> d
      [] w = "torn"  -> (id :> [ok |-> FALSE]) @@ d

\* saveSession: the snapshot directory after the call
saveSession(d, session, w) == WriteFile(d, session.ID, MarshalSession(session), w)

\* a faulty variant of loadSessions: a file that does not parse ends the
\* loading, and nothing is registered
loadSessionsStrict(d) ==
    IF \E f \in DOMAIN d : ~d[f].ok
    THEN [i \in {} |-> 0]
    ELSE [i \in {d[f].doc.id : f \in DOMAIN d} |->
             UnmarshalSession(d[CHOOSE f \in DOMAIN d : d[f].doc.id = i].doc)]

\* loadSessions: every file that parses is registered under the id it holds
loadSessions(d) ==
    LET good == {f \in DOMAIN d : d[f].ok}
        ids  == {d[f].doc.id : f \in good}
    IN  [i \in ids |-> UnmarshalSession(d[CHOOSE f \in good : d[f].doc.id = i].doc)]

\* AddExecution: the text appended to the log, line by line
LogEntry(e) ==
    << [kind |-> "cmd", time |-> e.Time, text |-> e.Code],
       [kind |-> "out", text |-> e.Output] >>
    \o (IF e.Stderr # EmptyStr THEN << [kind |-> "stderr", text |-> e.Stderr] >> ELSE << >>)
    \o << [kind |-> "exit", code |-> e.ExitCode, duration |-> e.Duration],
          [kind |-> "blank"] >>

\* a faulty variant of AppendHistory: the write lands on the last entry, as
\* a writer that had read the history before another's append would
OverwriteLast(h, e) == IF h = << >> THEN <<e>> ELSE [h EXCEPT ![Len(h)] = e]

\* AddExecution: session.State.History = append(session.State.History, exec)
AppendHistory(h, e) == Append(h, e)

\* the sequences over S of length at most Cardinality(S)
Seq1(S) == UNION {[1..m -> S] : m \in 0..Cardinality(S)}

\* prepareCodeWithEnv, for one iteration order of the map (a sequence of its keys)
ExportLine(k, v) == <<"export ">> \o k \o <<"=">> \o Quote(v) \o <<"\n">>
EnvironLine(k, v) == <<"os.environ[">> \o Quote(k) \o <<"] = ">> \o Quote(v) \o <<"\n">>
RECURSIVE ExportPrefix(_, _)
ExportPrefix(env, order) ==
    IF order = << >> THEN EmptyStr
    ELSE ExportLine(Head(order), env[Head(order)]) \o ExportPrefix(env, Tail(order))
RECURSIVE EnvironPrefix(_, _)
EnvironPrefix(env, order) ==
    IF order = << >> THEN EmptyStr
    ELSE EnvironLine(Head(order), env[Head(order)]) \o EnvironPrefix(env, Tail(order))
\* a faulty variant of prepareCodeWithEnv: the export lines are put in front
\* of the code of every language
prepareCodeExportAll(code, env, language, order) ==
    IF DOMAIN env = {} THEN code ELSE ExportPrefix(env, order) \o code

prepareCodeWithEnv(code, env, language, order) ==
    IF DOMAIN env = {} THEN code
    ELSE IF language \in {"bash", "shell", "sh"} THEN ExportPrefix(env, order) \o code
    ELSE IF language \in {"python", "python3"}
         THEN <<"import os\n">> \o EnvironPrefix(env, order) \o code
    ELSE code
\* the orders a range over the map can take: each key once
Orders(env) ==
    {o \in Seq1(DOMAIN env) : Len(o) = Cardinality(DOMAIN env) /\ \A k \in DOMAIN env : \E i \in DOMAIN o : o[i] = k}


(***************************************************************************)
(* State.                                                                  *)
(*   sessions : SessionManager.sessions, id -> Session                     *)
(*   disk     : dataDir/<id>.json, id -> snapshot file                     *)
(*   logs     : dataDir/logs/<id>.log, id -> lines                         *)
(*   clock    : the wall clock; it advances when an Execute reads its      *)
(*              start time                                                 *)
(*   task     : the Execute requests and their local variables             *)
(*   faults   : file operations that have failed so far                    *)
(*   client   : the local variables of one Judge0Client.Execute call       *)
(*   mu       : SessionManager.mu, the read-write lock of the store: who    *)
(*              holds it for writing, who holds it for reading             *)
(*   call     : the requests of SpecLock and their local variables, where  *)
(*              a store operation takes the lock in one step and gives it  *)
(*              back in another                                            *)
(***************************************************************************)
VARIABLES sessions, disk, logs, clock, task, faults, client, mu, call
vars == <<sessions, disk, logs, clock, task, faults, client, mu, call>>

NoID == generateID("sess", 0)
IdleTask ==
    [ pc |-> "idle", path |-> "none", sid |-> NoID, code |-> EmptyStr,
      langID |-> 0, fullCode |-> EmptyStr, start |-> 0, result |-> NoResult,
      duration |-> 0, err |-> "none", recErr |-> "none" ]
IdleClient ==
    [ pc |-> "idle", i |-> 0, submits |-> 0, code |-> 0, polls |-> 0, sleeps |-> 0,
      status |-> 0, err |-> "none" ]

\* the requests of SpecLock
Procs == 1..NumCalls
NoExec == NewExecution(EmptyStr, NoResult, 0, 0)
IdleCall ==
    [ op |-> "none", pc |-> "idle", id |-> NoID, key |-> EmptyStr, value |-> EmptyStr,
      start |-> 0, exec |-> NoExec, h |-> << >>, ret |-> {} ]

\* sync.RWMutex: Lock waits until nobody holds the lock, RLock until nobody
\* holds it for writing
FreeLock == [writer |-> 0, readers |-> {}]
\* a faulty variant of CanLock: Lock does not wait
CanLockAlways(m) == TRUE
CanLock(m)  == m.writer = 0 /\ m.readers = {}
CanRLock(m) == m.writer = 0
Lock(m, p)    == [m EXCEPT !.writer = p]
\* a faulty variant of Unlock: the operation returns without giving the
\* write lock back
UnlockKept(m, p) == m
Unlock(m, p)  == [m EXCEPT !.writer = 0]
RLock(m, p)   == [m EXCEPT !.readers = @ \cup {p}]
\* a faulty variant of RUnlock: the read lock is kept
RUnlockKept(m, p) == m
\* defer sm.mu.RUnlock()
RUnlock(m, p) == [m EXCEPT !.readers = @ \ {p}]

\* the lock is free and SpecLock has no request
NoCalls == mu = FreeLock /\ call = << >>

\* an empty data directory, a new process, no request yet
InitStore ==
    /\ sessions = [i \in {} |-> 0]
    /\ disk = [i \in {} |-> 0]
    /\ logs = [i \in {} |-> 0]
    /\ clock = 0
    /\ task = [t \in Tasks |-> IdleTask]
    /\ faults = 0
    /\ NoCalls

Init == InitStore /\ client = IdleClient

\* the handler returns an error
Fail(err) == [IdleTask EXCEPT !.pc = "failed", !.err = err]

\* a file operation that fails uses up one of the MaxFaults failures
Failed(w) == IF w = "ok" THEN 0 ELSE 1

(***************************************************************************)
(* SessionManager operations, each with the handlers that call it.  A      *)
(* store operation runs under sm.mu from its first to its last line.  The  *)
(* last parameters of an action are what the environment decides: the      *)
(* random bytes n, the outcome wl of the log-file operation and the        *)
(* outcome ws of the snapshot write.                                       *)
(***************************************************************************)
\* a faulty variant of CreateRejected: the language is not looked up
CreateRejectedEmptyOnly(path, language) == path # "cli" /\ language = ""

\* the handlers' checks before CreateSession: "language is required" (http,
\* mcp) and GetLanguageID
CreateRejected(path, language) ==
    \/ path # "cli" /\ language = ""
    \/ ~GetLanguageID(language).ok

\* sessionsCreateCmd / handleCreateSession / invokeMCPCreateSession, and
\* SessionManager.CreateSession
CreateSession(path, language, name, n, wl, ws) ==
    LET id      == generateID("sess", n)
        session == NewSession(id, language, name)
    IN  IF CreateRejected(path, language)
        THEN UNCHANGED vars
        ELSE IF wl # "ok"
        THEN /\ faults < MaxFaults
             /\ faults' = faults + 1
             /\ UNCHANGED <<sessions, disk, logs, clock, task, client, mu, call>>
        ELSE /\ faults + Failed(ws) <= MaxFaults
             /\ faults' = faults + Failed(ws)
             /\ logs' = (session.LogFile :> << >>) @@ logs
             /\ sessions' = (id :> session) @@ sessions
             /\ disk' = saveSession(disk, session, ws)
             /\ UNCHANGED <<clock, task, client, mu, call>>

\* a faulty variant of SetEnv: the env map is one map shared by the sessions,
\* so the key is set in all of them
SetEnvShared(path, id, key, value, ws) ==
    IF (path = "mcp" /\ key = EmptyStr) \/ id \notin DOMAIN sessions
    THEN UNCHANGED vars
    ELSE /\ faults + Failed(ws) <= MaxFaults
         /\ faults' = faults + Failed(ws)
         /\ sessions' = [y \in DOMAIN sessions |->
                            [sessions[y] EXCEPT !.State.Env = (key :> value) @@ @]]
         /\ disk' = saveSession(disk, sessions'[id], ws)
         /\ UNCHANGED <<logs, clock, task, client, mu, call>>

\* a faulty variant of SetEnv: an id that is not registered gets a session
SetEnvUpsert(path, id, key, value, ws) ==
    IF path = "mcp" /\ key = EmptyStr
    THEN UNCHANGED vars
    ELSE LET old == IF id \in DOMAIN sessions THEN sessions[id]
                    ELSE NewSession(id, "bash", EmptyStr)
             s   == [old EXCEPT !.State.Env = (key :> value) @@ @]
         IN  /\ faults + Failed(ws) <= MaxFaults
             /\ faults' = faults + Failed(ws)
             /\ sessions' = (id :> s) @@ sessions
             /\ disk' = saveSession(disk, s, ws)
             /\ UNCHANGED <<logs, clock, task, client, mu, call>>

\* handleSetEnv / invokeMCPSetEnv, and SessionManager.SetEnv
SetEnv(path, id, key, value, ws) ==
    IF (path = "mcp" /\ key = EmptyStr) \/ id \notin DOMAIN sessions
    THEN UNCHANGED vars
    ELSE LET s == [sessions[id] EXCEPT !.State.Env = (key :> value) @@ @]
         IN  /\ faults + Failed(ws) <= MaxFaults
             /\ faults' = faults + Failed(ws)
             /\ sessions' = [sessions EXCEPT ![id] = s]
             /\ disk' = saveSession(disk, s, ws)
             /\ UNCHANGED <<logs, clock, task, client, mu, call>>

\* a faulty variant of Closed: closing a closed session opens it again
Reopened(s) ==
    [s EXCEPT !.Status = IF @ = "closed" THEN "active" ELSE "closed"]

\* a faulty variant of the assignment of CloseSession, which also drops the
\* history of the session
ClosedEmptied(s) == [s EXCEPT !.Status = "closed", !.State.History = << >>]

\* the assignment of SessionManager.CloseSession: the status becomes closed
Closed(s) == [s EXCEPT !.Status = "closed"]

\* what SessionManager.CloseSession returns: not found, or saveSession's error
CloseSessionErr(id, ws) ==
    IF id \notin DOMAIN sessions THEN "not_found"
    ELSE IF ws = "ok" THEN "none" ELSE "save"

\* sessionsCloseCmd / handleCloseSession / invokeMCPCloseSession, and
\* SessionManager.CloseSession
CloseSession(path, id, ws) ==
    IF id \notin DOMAIN sessions
    THEN UNCHANGED vars
    ELSE LET s == Closed(sessions[id])
         IN  /\ faults + Failed(ws) <= MaxFaults
             /\ faults' = faults + Failed(ws)
             /\ sessions' = [sessions EXCEPT ![id] = s]
             /\ disk' = saveSession(disk, s, ws)
             /\ UNCHANGED <<logs, clock, task, client, mu, call>>

\* SessionManager.GetSession: a read under the read lock
GetSession(id) ==
    IF id \in DOMAIN sessions
    THEN [err |-> "none", session |-> sessions[id]]
    ELSE [err |-> "not_found", session |-> NewSession(NoID, "", EmptyStr)]

\* SessionManager.ListSessions: the sessions of the map (in the order of the
\* map's iteration, which is not fixed)
ListSessions == {sessions[id] : id \in DOMAIN sessions}

\* SessionManager.GetLog(sessionID, lines): the whole file, whatever lines
\* asks for
GetLog(id, lines) ==
    IF id \notin DOMAIN sessions THEN [err |-> "not_found", content |-> << >>]
    ELSE IF sessions[id].LogFile \notin DOMAIN logs THEN [err |-> "read", content |-> << >>]
    ELSE [err |-> "none", content |-> logs[sessions[id].LogFile]]

\* the process ends and a new one starts: NewSessionManager over the same
\* data directory; the requests the old process was serving are gone
Restart ==
    /\ sessions' = loadSessions(disk)
    /\ task' = [t \in Tasks |-> IF task[t].pc = "ready" THEN Fail("aborted") ELSE task[t]]
    /\ UNCHANGED <<disk, logs, clock, faults, client, mu, call>>

(***************************************************************************)
(* Execute: execCmd (cli), handleExecute (http), invokeMCPExecute (mcp).   *)
(* A handler takes two steps.  ExecStart runs it up to the call of         *)
(* judge0Client.Execute: GetSession under the read lock, then the reads    *)
(* through the pointer it returned and the start time.  ExecFinish is the  *)
(* return of that call and the rest of the handler: AddExecution under the *)
(* write lock, and the response.  All the time the request takes passes    *)
(* between the two, inside the client, where no lock is held.              *)
(***************************************************************************)
\* what one call of Judge0Client.Execute returns: a finished job's result,
\* or the error of the submit, of a poll, or of the exhausted attempts
ExecuteOutcomes ==
    {[err |-> "none", result |-> r] : r \in EngineResults}
    \cup {[err |-> e, result |-> NoResult] : e \in {"submission", "poll", "timeout"}}

\* execCmd alone refuses a session that is not active
RefusesInactive(path) == path = "cli"

\* the request up to result, err := judge0Client.Execute(fullCode, langID, stdin)
ExecStart(t, path, id, input, order) ==
    /\ task[t].pc = "idle"
    /\ \A u \in Tasks : u < t => task[u].pc # "idle"    \* the requests are numbered as they arrive
    /\ LET code == IF path = "cli" THEN input ELSE ToValidUTF8(input)   \* a JSON body
       IN  IF path = "mcp" /\ code = EmptyStr
           THEN task' = [task EXCEPT ![t] = Fail("code_required")] /\ UNCHANGED clock
           ELSE IF id \notin DOMAIN sessions
           THEN task' = [task EXCEPT ![t] = Fail("not_found")] /\ UNCHANGED clock
           ELSE IF path = "http" /\ code = EmptyStr
           THEN task' = [task EXCEPT ![t] = Fail("code_required")] /\ UNCHANGED clock
           ELSE LET s    == sessions[id]
                    lang == GetLanguageID(s.Language)
                IN  IF RefusesInactive(path) /\ s.Status # "active"
                    THEN task' = [task EXCEPT ![t] = Fail("invalid_state")] /\ UNCHANGED clock
                    ELSE IF ~lang.ok
                    THEN task' = [task EXCEPT ![t] = Fail("unsupported")] /\ UNCHANGED clock
                    ELSE /\ order \in Orders(s.State.Env)
                         /\ task' = [task EXCEPT ![t] =
                               [IdleTask EXCEPT
                                   !.pc = "ready", !.path = path, !.sid = id, !.code = code,
                                   !.langID = lang.id,
                                   !.fullCode = prepareCodeWithEnv(code, s.State.Env,
                                                                   s.Language, order),
                                   !.start = clock]]
                         /\ clock' = clock + 1
    /\ UNCHANGED <<sessions, disk, logs, faults, client, mu, call>>

LogOutcomes == {"ok", "open_error", "write_error"}

\* a faulty variant of ReturnsError: the handler goes on to record whatever
\* the client returned
NeverReturnsError(o) == FALSE

\* if err != nil { return ... } after judge0Client.Execute
ReturnsError(o) == o.err # "none"

\* a faulty variant of RecordedCode: the code that was submitted is recorded
RecordedFullCode(r) == r.fullCode

\* exec := Execution{Code: code, ...}: the code of the request, not fullCode
RecordedCode(r) == r.code

\* what the handler returns once it has the result.  handleExecute and
\* invokeMCPExecute answer with the result; execCmd prints it and, unless
\* --json was given, returns "exit code: N" for an exit code other than 0.
HandlerErr(path, result, jsonOut) ==
    IF path = "cli" /\ ~jsonOut /\ result.ExitCode # 0 THEN "exit_code" ELSE "none"

\* a faulty variant of AfterRecord: the error of AddExecution is returned
RecordErrorReturned(recErr, herr) == IF recErr # "none" THEN "record" ELSE herr

\* if err := sessionManager.AddExecution(...); err != nil { warning }: the
\* error is printed (cli), logged (http) or dropped (mcp), and the handler
\* goes on to its answer
AfterRecord(recErr, herr) == herr

\* the return of judge0Client.Execute and the rest of the handler; jsonOut is
\* the --json flag of execCmd
ExecFinish(t, o, n, wl, ws) ==
    /\ task[t].pc = "ready"
    /\ \E jsonOut \in (IF task[t].path = "cli" THEN BOOLEAN ELSE {FALSE}) :
       LET r        == task[t]
           id       == r.sid
           duration == clock - r.start
           exec     == [NewExecution(RecordedCode(r), o.result, r.start, duration)
                           EXCEPT !.ID = generateID("exec", n)]
           done(err) == [task EXCEPT ![t] =
                            [r EXCEPT !.pc = "done", !.langID = 0, !.fullCode = EmptyStr,
                                      !.result = o.result, !.duration = duration,
                                      !.err = AfterRecord(err, HandlerErr(r.path, o.result,
                                                                          jsonOut)),
                                      !.recErr = err]]
       IN  IF ReturnsError(o)
           THEN /\ task' = [task EXCEPT ![t] = Fail(o.err)]
                /\ UNCHANGED <<sessions, disk, logs, faults>>
           ELSE IF id \notin DOMAIN sessions
           THEN /\ task' = done("not_found")
                /\ UNCHANGED <<sessions, disk, logs, faults>>
           ELSE LET s == [sessions[id] EXCEPT !.State.History = AppendHistory(@, exec)]
                IN  /\ sessions' = [sessions EXCEPT ![id] = s]
                    /\ IF wl = "open_error" \/ s.LogFile \notin DOMAIN logs
                       THEN /\ faults < MaxFaults
                            /\ faults' = faults + 1
                            /\ UNCHANGED <<disk, logs>>
                            /\ task' = done("log_file")
                       ELSE /\ faults + Failed(wl) + Failed(ws) <= MaxFaults
                            /\ faults' = faults + Failed(wl) + Failed(ws)
                            /\ logs' = IF wl = "ok"
                                       THEN [logs EXCEPT ![s.LogFile] = @ \o LogEntry(exec)]
                                       ELSE logs
                            /\ disk' = saveSession(disk, s, ws)
                            /\ task' = done(IF ws = "ok" THEN "none" ELSE "save")
    /\ UNCHANGED <<clock, client, mu, call>>

\* the requests, with a file system on which every operation succeeds
Next ==
    \/ \E path \in Paths, language \in Languages, name \in Names, n \in Rand :
          CreateSession(path, language, name, n, "ok", "ok")
    \/ \E path \in {"http", "mcp"}, id \in SessIDs, key \in Keys, value \in Values :
          SetEnv(path, id, key, value, "ok")
    \/ \E path \in Paths, id \in SessIDs : CloseSession(path, id, "ok")
    \/ \E t \in Tasks, path \in Paths, id \in SessIDs, input \in Codes,
          order \in Seq1(Keys) :
          ExecStart(t, path, id, input, order)
    \/ \E t \in Tasks, o \in ExecuteOutcomes, n \in ExecRand : ExecFinish(t, o, n, "ok", "ok")
    \/ Restart

Spec == Init /\ [][Next]_vars

\* the same requests, one Execute at a time, with a file system on which up
\* to MaxFaults operations fail
NextFaulty ==
    \/ \E path \in Paths, language \in Languages, name \in Names,
          n \in Rand, wl \in {"ok", "error"}, ws \in WriteOutcomes :
          CreateSession(path, language, name, n, wl, ws)
    \/ \E path \in {"http", "mcp"}, id \in SessIDs, key \in Keys, value \in Values,
          ws \in WriteOutcomes :
          SetEnv(path, id, key, value, ws)
    \/ \E path \in Paths, id \in SessIDs, ws \in WriteOutcomes : CloseSession(path, id, ws)
    \/ \E path \in Paths, id \in SessIDs, input \in Codes, order \in Seq1(Keys) :
          ExecStart(1, path, id, input, order)
    \/ \E o \in ExecuteOutcomes, n \in ExecRand, wl \in LogOutcomes, ws \in WriteOutcomes :
          ExecFinish(1, o, n, wl, ws)
    \/ Restart

SpecFaulty == Init /\ [][NextFaulty]_vars

(***************************************************************************)
(* One call of Judge0Client.Execute, request by request.  The remote       *)
(* engine decides what each request meets: a request that cannot be built, *)
(* a transport error, or a response with a status code and a body that     *)
(* decodes or not; a poll's body carries the job's status id.              *)
(***************************************************************************)
MaxStatus == 13     \* the largest status id the engine answers with
HTTPCodes == {200, StatusCreated, 500}
SubmitOutcomes ==
    {[stage |-> "request", code |-> 0, decodes |-> FALSE],
     [stage |-> "transport", code |-> 0, decodes |-> FALSE]}
    \cup {[stage |-> "response", code |-> c, decodes |-> d] : c \in HTTPCodes, d \in BOOLEAN}
PollOutcomes ==
    {[stage |-> "request", status |-> 0], [stage |-> "transport", status |-> 0],
     [stage |-> "decode", status |-> 0]}
    \cup {[stage |-> "response", status |-> st] : st \in 0..MaxStatus}

\* faulty variants of the three tests below, against which the properties of
\* the client are tried: any response counts as created; the loop runs once
\* more; status 3 is not yet terminal
AnyResponseCreated(o) == o.stage = "response"
LoopContinuesInclusive(i) == i <= maxAttempts
IsTerminalAbove(status) == status > TerminalStatus

\* createSubmission returns a token: the POST was answered 201 Created with
\* a body that decodes
SubmissionCreated(o) == o.stage = "response" /\ o.code = StatusCreated /\ o.decodes

\* for i := 0; i < maxAttempts; i++
LoopContinues(i) == i < maxAttempts

\* if result.Status.ID >= 3 { return &result, nil }
IsTerminal(status) == status >= TerminalStatus

InitClient ==
    /\ InitStore
    /\ client = [IdleClient EXCEPT !.pc = "start"]

\* Execute up to the loop of waitForResult: createSubmission, once
createSubmission(o) ==
    /\ client.pc = "start"
    /\ client' = [client EXCEPT
                    !.submits = @ + 1,
                    !.code = o.code,
                    !.pc  = IF ~SubmissionCreated(o) THEN "failed"
                            ELSE IF LoopContinues(0) THEN "polling" ELSE "failed",
                    !.err = IF ~SubmissionCreated(o) THEN "submission"
                            ELSE IF LoopContinues(0) THEN "none" ELSE "timeout"]
    /\ UNCHANGED <<sessions, disk, logs, clock, task, faults, mu, call>>

\* a faulty variant of PollFailed: a poll that fails is taken as the answer
\* of a job that is still running, and the loop polls again
PollErrorRetried(o) == FALSE

\* if err != nil { return nil, err } after http.NewRequest, httpClient.Do and
\* the decoding of the body
PollFailed(o) == o.stage # "response"

\* one iteration of the loop up to its test of the status
Poll(o) ==
    /\ client.pc = "polling"
    /\ client' = IF PollFailed(o)
                 THEN [client EXCEPT !.pc = "failed", !.err = "poll"]
                 ELSE [client EXCEPT
                          !.polls = @ + 1,
                          !.status = o.status,
                          !.pc = IF IsTerminal(o.status) THEN "done" ELSE "sleeping"]
    /\ UNCHANGED <<sessions, disk, logs, clock, task, faults, mu, call>>

\* time.Sleep(500 * time.Millisecond), i++, and the loop's test; past the
\* loop, "execution timed out waiting for result"
Sleep ==
    /\ client.pc = "sleeping"
    /\ client' = [client EXCEPT
                    !.sleeps = @ + 1,
                    !.i = @ + 1,
                    !.pc  = IF LoopContinues(client.i + 1) THEN "polling" ELSE "failed",
                    !.err = IF LoopContinues(client.i + 1) THEN "none" ELSE "timeout"]
    /\ UNCHANGED <<sessions, disk, logs, clock, task, faults, mu, call>>

NextClient ==
    \/ \E o \in SubmitOutcomes : createSubmission(o)
    \/ \E o \in PollOutcomes : Poll(o)
    \/ Sleep

SpecClient == InitClient /\ [][NextClient]_vars

(***************************************************************************)
(* Execute requests on sessions that exist: every id has been created (a   *)
(* state Spec reaches by CreateSession alone), and from there the requests *)
(* are Execute, SetEnv and CloseSession.                                    *)
(***************************************************************************)
InitCreated ==
    /\ sessions = [id \in SessIDs |-> NewSession(id, "bash", EmptyStr)]
    /\ disk = [id \in SessIDs |->
                  [ok |-> TRUE, doc |-> MarshalSession(NewSession(id, "bash", EmptyStr))]]
    /\ logs = [id \in SessIDs |-> << >>]
    /\ clock = 0
    /\ task = [t \in Tasks |-> IdleTask]
    /\ faults = 0
    /\ NoCalls
    /\ client = IdleClient

NextExecute ==
    \/ \E path \in {"http", "mcp"}, id \in SessIDs, key \in Keys, value \in Values :
          SetEnv(path, id, key, value, "ok")
    \/ \E path \in Paths, id \in SessIDs : CloseSession(path, id, "ok")
    \/ \E t \in Tasks, path \in Paths, id \in SessIDs, input \in Codes,
          order \in Seq1(Keys) :
          ExecStart(t, path, id, input, order)
    \/ \E t \in Tasks, o \in ExecuteOutcomes, n \in ExecRand : ExecFinish(t, o, n, "ok", "ok")

SpecExecute == InitCreated /\ [][NextExecute]_vars

(***************************************************************************)
(* Environment injection: one session, created with a language drawn from  *)
(* the kinds prepareCodeWithEnv tells apart, SetEnv over two keys, and     *)
(* Execute requests.                                                       *)
(***************************************************************************)
EnvLanguages == {"bash", "sh", "python", "python3", "go"}
EnvKeys == {<<"FOO">>, <<"BAR">>}
TheSession == generateID("sess", 1)

InitEnv ==
    /\ \E language \in EnvLanguages :
          /\ sessions = (TheSession :> NewSession(TheSession, language, EmptyStr))
          /\ disk = (TheSession :>
                        [ok |-> TRUE,
                         doc |-> MarshalSession(NewSession(TheSession, language, EmptyStr))])
    /\ logs = (TheSession :> << >>)
    /\ clock = 0
    /\ task = [t \in Tasks |-> IdleTask]
    /\ faults = 0
    /\ NoCalls
    /\ client = IdleClient

NextEnv ==
    \/ \E path \in {"http", "mcp"}, key \in EnvKeys, value \in Values :
          SetEnv(path, TheSession, key, value, "ok")
    \/ \E t \in Tasks, path \in Paths, input \in Codes, order \in Seq1(EnvKeys) :
          ExecStart(t, path, TheSession, input, order)
    \/ \E t \in Tasks, o \in ExecuteOutcomes, n \in ExecRand : ExecFinish(t, o, n, "ok", "ok")

SpecEnv == InitEnv /\ [][NextEnv]_vars

(***************************************************************************)
(* One Execute request from the handler through the client and back: the   *)
(* handler calls judge0Client.Execute, the client submits and polls, and   *)
(* the handler goes on with what the client returned.                      *)
(***************************************************************************)
\* result, err := judge0Client.Execute(fullCode, langID, stdin)
ExecCall ==
    /\ task[1].pc = "ready" /\ client.pc = "idle"
    /\ client' = [IdleClient EXCEPT !.pc = "start"]
    /\ UNCHANGED <<sessions, disk, logs, clock, task, faults, mu, call>>

\* Execute returns to the handler with the error or the result of the client
ExecReturn(o, n) ==
    /\ client.pc \in {"done", "failed"}
    /\ o.err = client.err
    /\ ExecFinish(1, o, n, "ok", "ok")

NextPoll ==
    \/ \E path \in Paths, id \in SessIDs, input \in Codes, order \in Seq1(Keys) :
          ExecStart(1, path, id, input, order)
    \/ ExecCall
    \/ \E o \in SubmitOutcomes : createSubmission(o)
    \/ \E o \in PollOutcomes : Poll(o)
    \/ Sleep
    \/ \E o \in ExecuteOutcomes, n \in ExecRand : ExecReturn(o, n)

SpecPoll == InitCreated /\ [][NextPoll]_vars

(***************************************************************************)
(* The lock of the store.  Every operation of SessionManager starts with   *)
(* sm.mu.Lock() or sm.mu.RLock() and gives the lock back when it returns   *)
(* (defer).  Here an operation takes two steps, one that takes the lock    *)
(* and one that does the rest and gives it back, so that the requests      *)
(* interleave inside the operations as far as the lock lets them.  An      *)
(* Execute request is GetSession, the client (submit, poll, sleep) and     *)
(* AddExecution.  GetSession and ListSessions return pointers to the       *)
(* sessions of the map: a pointer is modelled by the id, and ids are not   *)
(* reused here (a create draws an id that is free).                        *)
(***************************************************************************)
\* the store as a value: the map, the snapshot files and the log files
StoreNow == [sessions |-> sessions, disk |-> disk, logs |-> logs]

\* SetEnv between Lock and Unlock
StoreSetEnv(S, id, key, value) ==
    IF id \notin DOMAIN S.sessions THEN S
    ELSE LET s == [S.sessions[id] EXCEPT !.State.Env = (key :> value) @@ @]
         IN  [sessions |-> [S.sessions EXCEPT ![id] = s],
              disk |-> saveSession(S.disk, s, "ok"), logs |-> S.logs]

\* CloseSession between Lock and Unlock
StoreClose(S, id) ==
    IF id \notin DOMAIN S.sessions THEN S
    ELSE LET s == Closed(S.sessions[id])
         IN  [sessions |-> [S.sessions EXCEPT ![id] = s],
              disk |-> saveSession(S.disk, s, "ok"), logs |-> S.logs]

\* CreateSession between Lock and Unlock
StoreCreate(S, id, language, name) ==
    LET s == NewSession(id, language, name)
    IN  [sessions |-> (id :> s) @@ S.sessions,
         disk |-> saveSession(S.disk, s, "ok"),
         logs |-> (s.LogFile :> << >>) @@ S.logs]

\* AddExecution between Lock and Unlock; h is the history that append read
StoreAddExecution(S, id, exec, h) ==
    IF id \notin DOMAIN S.sessions THEN S
    ELSE LET s == [S.sessions[id] EXCEPT !.State.History = AppendHistory(h, exec)]
         IN  [sessions |-> [S.sessions EXCEPT ![id] = s],
              disk |-> saveSession(S.disk, s, "ok"),
              logs |-> [S.logs EXCEPT ![s.LogFile] = @ \o LogEntry(exec)]]

\* the code and the result of the Execute requests of SpecLock
LockCode == <<"echo hi">>
LockResult == [Stdout |-> <<"hi">>, Stderr |-> EmptyStr, ExitCode |-> 0, StatusID |-> 3]

InitLock ==
    /\ sessions = (TheSession :> NewSession(TheSession, "bash", EmptyStr))
    /\ disk = (TheSession :>
                  [ok |-> TRUE, doc |-> MarshalSession(NewSession(TheSession, "bash", EmptyStr))])
    /\ logs = (TheSession :> << >>)
    /\ clock = 0
    /\ task = [t \in Tasks |-> IdleTask]
    /\ faults = 0
    /\ client = IdleClient
    /\ mu = FreeLock
    /\ call = [p \in Procs |-> IdleCall]

\* SetEnv, CloseSession, CreateSession: sm.mu.Lock()
SetEnvLock(p, id, key, value) ==
    /\ call[p].pc = "idle" /\ CanLock(mu)
    /\ mu' = Lock(mu, p)
    /\ call' = [call EXCEPT ![p] = [IdleCall EXCEPT !.op = "setenv", !.pc = "locked",
                                                     !.id = id, !.key = key, !.value = value]]
    /\ UNCHANGED <<sessions, disk, logs, clock, task, faults, client>>

CloseSessionLock(p, id) ==
    /\ call[p].pc = "idle" /\ CanLock(mu)
    /\ mu' = Lock(mu, p)
    /\ call' = [call EXCEPT ![p] = [IdleCall EXCEPT !.op = "close", !.pc = "locked", !.id = id]]
    /\ UNCHANGED <<sessions, disk, logs, clock, task, faults, client>>

\* and id := generateID("sess")
CreateSessionLock(p, n) ==
    /\ call[p].pc = "idle" /\ CanLock(mu)
    /\ generateID("sess", n) \notin DOMAIN sessions
    /\ mu' = Lock(mu, p)
    /\ call' = [call EXCEPT ![p] = [IdleCall EXCEPT !.op = "create", !.pc = "locked",
                                                     !.id = generateID("sess", n)]]
    /\ UNCHANGED <<sessions, disk, logs, clock, task, faults, client>>

\* GetSession (of a get-session request or of an Execute), GetLog,
\* ListSessions: sm.mu.RLock()
GetSessionRLock(p, op, id) ==
    /\ call[p].pc = "idle" /\ CanRLock(mu)
    /\ op \in {"get", "execute", "log"}
    /\ mu' = RLock(mu, p)
    /\ call' = [call EXCEPT ![p] = [IdleCall EXCEPT !.op = op, !.pc = "rlocked", !.id = id]]
    /\ UNCHANGED <<sessions, disk, logs, clock, task, faults, client>>

ListSessionsRLock(p) ==
    /\ call[p].pc = "idle" /\ CanRLock(mu)
    /\ mu' = RLock(mu, p)
    /\ call' = [call EXCEPT ![p] = [IdleCall EXCEPT !.op = "list", !.pc = "rlocked"]]
    /\ UNCHANGED <<sessions, disk, logs, clock, task, faults, client>>

\* the rest of GetSession, GetLog and ListSessions: the lookup or the loop
\* over the map, RUnlock, and the return of the pointers.  GetLog goes on to
\* read the file; the handler of a get or a list goes on to encode what it
\* was handed, and an Execute handler to prepare the code.
ReadRUnlock(p) ==
    /\ call[p].pc = "rlocked"
    /\ mu' = RUnlock(mu, p)
    /\ LET c == call[p]
       IN  IF c.op = "list"
           THEN call' = [call EXCEPT ![p] = [c EXCEPT !.pc = "returned",
                                                      !.ret = DOMAIN sessions]]
           ELSE IF c.id \notin DOMAIN sessions
           THEN call' = [call EXCEPT ![p] = [c EXCEPT !.pc = "failed"]]
           ELSE IF c.op = "log"
           THEN call' = [call EXCEPT ![p] = [c EXCEPT !.pc = "done"]]
           ELSE IF c.op = "get"
           THEN call' = [call EXCEPT ![p] = [c EXCEPT !.pc = "returned", !.ret = {c.id}]]
           ELSE call' = [call EXCEPT ![p] = [c EXCEPT !.pc = "preparing", !.ret = {c.id}]]
    /\ UNCHANGED <<sessions, disk, logs, clock, task, faults, client>>

\* handleGetSession, handleListSessions: json.NewEncoder(w).Encode of the
\* sessions that were returned, read through the pointers
Encode(p) ==
    /\ call[p].pc = "returned"
    /\ call' = [call EXCEPT ![p].pc = "done"]
    /\ UNCHANGED <<sessions, disk, logs, clock, task, faults, client, mu>>

\* the Execute handler between GetSession and the client: GetLanguageID and
\* prepareCodeWithEnv read session.Language and session.State.Env through
\* the pointer, and the start time is taken
Prepare(p) ==
    /\ call[p].pc = "preparing"
    /\ call' = [call EXCEPT ![p] = [@ EXCEPT !.pc = "submitting", !.start = clock]]
    /\ clock' = clock + 1
    /\ UNCHANGED <<sessions, disk, logs, task, faults, client, mu>>

\* a request reads the mutable state of sessions through pointers it was
\* handed, without the lock
Reading(p) == call[p].pc \in {"returned", "preparing"}

\* such a read overlaps an operation that writes the session
Racing == \E p, q \in Procs : Reading(p) /\ call[q].pc = "locked" /\ call[q].id \in call[p].ret

\* a read of the env map that overlaps a write of it is a data race, and the
\* runtime may end the process on it ("concurrent map iteration and map
\* write"); otherwise the read sees the map before or after the write, as in
\* the interleavings of Encode and Prepare with MutateUnlock.  When the
\* process ends its requests fail, and the next process loads the snapshots.
RaceCrash ==
    /\ Racing
    /\ call' = [p \in Procs |->
                  IF call[p].pc \in {"idle", "done", "failed"} THEN call[p]
                  ELSE [call[p] EXCEPT !.pc = "failed"]]
    /\ mu' = FreeLock
    /\ sessions' = loadSessions(disk)
    /\ UNCHANGED <<disk, logs, clock, task, faults, client>>

\* Judge0Client.Execute: createSubmission
Submit(p, created) ==
    /\ call[p].pc = "submitting"
    /\ call' = [call EXCEPT ![p].pc = IF created THEN "polling" ELSE "failed"]
    /\ UNCHANGED <<sessions, disk, logs, clock, task, faults, client, mu>>

\* waitForResult: the answer to a poll; with a finished job the client
\* returns and the handler builds the Execution
PollAnswer(p, o) ==
    /\ call[p].pc = "polling"
    /\ call' = [call EXCEPT ![p] =
                  CASE o = "finished" ->
                           [@ EXCEPT !.pc = "adding",
                                     !.exec = NewExecution(LockCode, LockResult, call[p].start,
                                                           clock - call[p].start)]
                    [] o = "running" -> [@ EXCEPT !.pc = "sleeping"]
                    [] o = "error" -> [@ EXCEPT !.pc = "failed"]]
    /\ UNCHANGED <<sessions, disk, logs, clock, task, faults, client, mu>>

\* waitForResult: time.Sleep is over
SleepOver(p) ==
    /\ call[p].pc = "sleeping"
    /\ call' = [call EXCEPT ![p].pc = "polling"]
    /\ UNCHANGED <<sessions, disk, logs, clock, task, faults, client, mu>>

\* AddExecution: sm.mu.Lock(), the lookup, exec.ID, and the read of
\* session.State.History by append
AddExecutionLock(p, n) ==
    /\ call[p].pc = "adding" /\ CanLock(mu)
    /\ IF call[p].id \notin DOMAIN sessions
       THEN /\ call' = [call EXCEPT ![p].pc = "failed"]
            /\ UNCHANGED mu
       ELSE /\ mu' = Lock(mu, p)
            /\ call' = [call EXCEPT ![p] =
                          [@ EXCEPT !.pc = "locked",
                                    !.exec = [@ EXCEPT !.ID = generateID("exec", n)],
                                    !.h = sessions[call[p].id].State.History]]
    /\ UNCHANGED <<sessions, disk, logs, clock, task, faults, client>>

\* the rest of the operation that holds the lock, and Unlock
MutateUnlock(p) ==
    /\ call[p].pc = "locked"
    /\ LET c  == call[p]
           S  == CASE c.op = "setenv"  -> StoreSetEnv(StoreNow, c.id, c.key, c.value)
                   [] c.op = "close"   -> StoreClose(StoreNow, c.id)
                   [] c.op = "create"  -> StoreCreate(StoreNow, c.id, "bash", EmptyStr)
                   [] c.op = "execute" -> StoreAddExecution(StoreNow, c.id, c.exec, c.h)
           found == c.op = "create" \/ c.id \in DOMAIN sessions
       IN  /\ sessions' = S.sessions
           /\ disk' = S.disk
           /\ logs' = S.logs
           /\ call' = [call EXCEPT ![p].pc = IF found THEN "done" ELSE "failed"]
    /\ mu' = Unlock(mu, p)
    /\ UNCHANGED <<clock, task, faults, client>>

NextLock ==
    \/ \E p \in Procs, id \in SessIDs, key \in Keys, value \in Values :
          SetEnvLock(p, id, key, value)
    \/ \E p \in Procs, id \in SessIDs : CloseSessionLock(p, id)
    \/ \E p \in Procs, n \in Rand : CreateSessionLock(p, n)
    \/ \E p \in Procs, op \in {"get", "execute", "log"}, id \in SessIDs :
          GetSessionRLock(p, op, id)
    \/ \E p \in Procs : ListSessionsRLock(p)
    \/ \E p \in Procs : ReadRUnlock(p)
    \/ \E p \in Procs : Encode(p)
    \/ \E p \in Procs : Prepare(p)
    \/ RaceCrash
    \/ \E p \in Procs, created \in BOOLEAN : Submit(p, created)
    \/ \E p \in Procs, o \in {"finished", "running", "error"} : PollAnswer(p, o)
    \/ \E p \in Procs : SleepOver(p)
    \/ \E p \in Procs, n \in ExecRand : AddExecutionLock(p, n)
    \/ \E p \in Procs : MutateUnlock(p)

SpecLock == InitLock /\ [][NextLock]_vars

\* The same under fair scheduling: a goroutine that is inside a store
\* operation goes on to its return, and a goroutine that waits in
\* sm.mu.Lock() gets the lock when it stays free.
FairLock ==
    \A p \in Procs :
        /\ WF_vars(ReadRUnlock(p))
        /\ WF_vars(MutateUnlock(p))
        /\ WF_vars(\E n \in ExecRand : AddExecutionLock(p, n))

SpecLockFair == SpecLock /\ FairLock

(***************************************************************************)
(* Properties                                                              *)
(***************************************************************************)
History(id) == sessions[id].State.History

\* the requests that have recorded an execution on session id
Recorded(id) == {t \in Tasks : task[t].pc = "done" /\ task[t].sid = id}

\* request t's execution is an entry of h
Present(t, h) ==
    \E i \in DOMAIN h : h[i].Time = task[t].start /\ h[i].Code = task[t].code
                        /\ h[i].Output = task[t].result.Stdout

\* C1: the Execute calls that have completed with a result on a session,
\* however they overlapped, have each added one entry to its history: the
\* history that was empty before them has one entry per call, every call's
\* execution is in it, and the snapshot on disk holds the same history.
C1_NoLostUpdate ==
    \A id \in SessIDs :
        /\ Len(History(id)) = Cardinality(Recorded(id))
        /\ \A t \in Recorded(id) : Present(t, History(id))
        /\ disk[id] = [ok |-> TRUE, doc |-> MarshalSession(sessions[id])]

\* two Execute calls on one session, the second started while the first was
\* in the client and recorded before the first returned, both in the history
C1_Witness ==
    /\ task[1].pc = "done" /\ task[2].pc = "done"
    /\ task[1].sid = task[2].sid
    /\ task[1].duration = 2
    /\ Len(History(task[1].sid)) = 2
    /\ History(task[1].sid)[1].Time = task[2].start
    /\ History(task[1].sid)[2].Time = task[1].start

\* a is a prefix of b
IsPrefix(a, b) == Len(a) <= Len(b) /\ SubSeq(b, 1, Len(a)) = a

\* C2: a session's history is append-only: whatever request is served, a
\* registered session stays registered and its history after the step
\* extends its history before it.
C2_AppendOnly ==
    [][Restart \/ \A id \in DOMAIN sessions :
                     /\ id \in DOMAIN sessions'
                     /\ IsPrefix(History(id), sessions'[id].State.History)]_vars

\* C3: status is active or closed, a new session is active, and no request
\* makes a closed session active again.
C3_StatusMonotonic ==
    [][Restart \/ \A id \in DOMAIN sessions' :
                     /\ sessions'[id].Status \in {"active", "closed"}
                     /\ id \notin DOMAIN sessions => sessions'[id].Status = "active"
                     /\ (id \in DOMAIN sessions /\ sessions[id].Status = "closed")
                            => sessions'[id].Status = "closed"]_vars

\* C4: on every entry path an Execute on a closed session fails and submits
\* nothing: a request reaches the client only for a session that is active.
C4_ClosedRefused ==
    [][\A t \in Tasks :
          (task[t].pc = "idle" /\ task'[t].pc = "ready")
              => sessions[task'[t].sid].Status = "active"]_vars

\* C5: a job whose every poll answers a non-terminal status is polled
\* exactly 30 times, each poll followed by one sleep, and then
\* Execute fails with the timeout: the timeout is never reported after fewer
\* polls, a poll past the last attempt is never issued, and the polls and
\* sleeps of a call are bounded.
C5_TimeoutAfterAllAttempts ==
    /\ client.polls <= 30 /\ client.sleeps <= client.polls
    /\ client.err = "timeout" => client.polls = 30 /\ client.sleeps = 30
    /\ (client.polls = 30 /\ client.sleeps = 30)
           => client.pc = "failed" /\ client.err = "timeout"

\* thirty polls, none terminal, and the timeout
C5_Witness ==
    /\ client.pc = "failed" /\ client.err = "timeout"
    /\ client.polls = 30 /\ client.sleeps = 30 /\ ~IsTerminal(client.status)

\* C6: a result is returned exactly at the first poll whose status is 3 or
\* more: the call goes on (sleeps, polls again) only after a status below 3,
\* a result it returns has a status of 3 or more and no error, and a status
\* of 3 or more, whatever it stands for, ends the call with that result.
C6_TerminalStatus ==
    /\ client.pc = "sleeping" => client.status < 3
    /\ client.pc = "done" => client.status >= 3 /\ client.err = "none" /\ client.polls >= 1
    /\ client.status >= 3 => client.pc = "done" /\ client.err = "none"

\* a result returned after polls that answered 1 or 2: here the internal
\* error status, on the third poll
C6_Witness ==
    client.pc = "done" /\ client.status = 13 /\ client.polls = 3 /\ client.sleeps = 2

\* C7: Execute submits once; a submit that fails (no response, a response
\* other than 201 Created, a body that does not decode) ends the call with
\* the submission error, without a second submit and without a poll.
C7_SubmitOnce ==
    /\ client.submits <= 1
    /\ client.pc # "start" => client.submits = 1
    /\ (client.submits = 1 /\ client.code # StatusCreated)
           => client.pc = "failed" /\ client.err = "submission" /\ client.polls = 0
    /\ client.err = "submission" => client.pc = "failed" /\ client.polls = 0 /\ client.sleeps = 0

\* a submit answered 500 has ended the call
C7_Witness ==
    /\ client.pc = "failed" /\ client.err = "submission"
    /\ client.code = 500 /\ client.submits = 1 /\ client.polls = 0

\* C8: an Execute whose client call fails (submission, poll, timeout)
\* records nothing, on every entry path: the sessions in memory, the
\* snapshots and the log files are what they were before the call returned.
C8_FailureRecordsNothing ==
    [][\A t \in Tasks, o \in ExecuteOutcomes, n \in ExecRand :
          (o.err # "none" /\ ExecFinish(t, o, n, "ok", "ok"))
              => UNCHANGED <<sessions, disk, logs>>]_vars

\* one request has failed in the client with the timeout and another has
\* recorded its execution: the history holds the one entry of the second
C8_Witness ==
    /\ task[1].pc = "failed" /\ task[1].err = "timeout"
    /\ task[2].pc = "done"
    /\ Len(History(task[2].sid)) = 1

\* C9: CreateSession never returns an id that is registered: a create that
\* succeeds adds an entry and replaces none.
C9_UniqueIDs ==
    [][\A path \in Paths, language \in Languages, name \in Names, n \in Rand :
          (~CreateRejected(path, language)
           /\ CreateSession(path, language, name, n, "ok", "ok"))
              => generateID("sess", n) \notin DOMAIN sessions]_vars

\* what a round trip has to keep of a session
Kept(s) == [ID |-> s.ID, Status |-> s.Status, Env |-> s.State.Env, History |-> s.State.History]

\* C10: after requests that all succeeded, a restart over the same data
\* directory yields every session with the id, status, env and history the
\* store held in memory.
C10_RoundTrip ==
    [][Restart => /\ DOMAIN sessions' = DOMAIN sessions
                  /\ \A id \in DOMAIN sessions : Kept(sessions'[id]) = Kept(sessions[id])]_vars

\* the execution blocks of a log: each starts with its "[time] $ code" line
IsCmd(line) == line.kind = "cmd"
Blocks(content) == SelectSeq(content, IsCmd)

\* C11: GetLog returns one block per history entry, in the order of the
\* history, after any sequence of operations, those of AddExecution calls
\* that returned an error included.
C11_LogMatchesHistory ==
    \A id \in DOMAIN sessions :
        /\ GetLog(id, DefaultLines).err = "none"
        /\ Len(Blocks(GetLog(id, DefaultLines).content)) = Len(History(id))
        /\ \A i \in DOMAIN History(id) : Blocks(GetLog(id, DefaultLines).content)[i].time = History(id)[i].Time

\* what file f holds under id y: its content, or that there is none
At(f, y) == IF y \in DOMAIN f THEN [there |-> TRUE, is |-> f[y]] ELSE [there |-> FALSE]

\* C12: a SetEnv on session id, whatever its outcome, leaves every other
\* session as it was: the session in memory (env, history, status), its
\* snapshot file and its log file.
C12_SetEnvFrame ==
    [][\A path \in {"http", "mcp"}, id \in SessIDs, key \in Keys, value \in Values,
          ws \in WriteOutcomes :
          SetEnv(path, id, key, value, ws)
              => \A y \in SessIDs \ {id} :
                    /\ At(sessions', y) = At(sessions, y)
                    /\ At(disk', y) = At(disk, y)
                    /\ At(logs', y) = At(logs, y)]_vars

\* a variable is set in one session while another session, which has
\* recorded an execution, has none
C12_Witness ==
    \E id, y \in DOMAIN sessions :
        /\ id # y
        /\ DOMAIN sessions[id].State.Env # {}
        /\ DOMAIN sessions[y].State.Env = {}
        /\ Len(History(y)) = 1
        /\ disk[y] = [ok |-> TRUE, doc |-> MarshalSession(sessions[y])]

Last(q) == q[Len(q)]

\* C13: on the three paths, the code an Execute hands to the client is the
\* code of the request with the session's env injected, and the code in the
\* history entry and in the log block it appends is the code of the request
\* itself, without the preamble.
C13_InjectedSentOriginalRecorded ==
    [][\A t \in Tasks :
          /\ (task[t].pc = "idle" /\ task'[t].pc = "ready")
                => \E order \in Orders(sessions[task'[t].sid].State.Env) :
                      task'[t].fullCode =
                          prepareCodeWithEnv(task'[t].code,
                                             sessions[task'[t].sid].State.Env,
                                             sessions[task'[t].sid].Language, order)
          /\ (task[t].pc = "ready" /\ task'[t].pc = "done")
                => /\ Last(sessions'[task[t].sid].State.History).Code = task[t].code
                   /\ Last(Blocks(logs'[task[t].sid])).text = task[t].code
                   /\ Len(sessions'[task[t].sid].State.History) = Len(History(task[t].sid)) + 1
                   /\ Len(Blocks(logs'[task[t].sid])) = Len(Blocks(logs[task[t].sid])) + 1]_vars

\* one request has recorded its code while another, with the preamble in
\* front of the same code, is in the client; the two arrived on different paths
C13_Witness ==
    \E t, u \in Tasks :
        /\ task[t].pc = "done" /\ task[u].pc = "ready" /\ task[t].path # task[u].path
        /\ task[u].fullCode # task[u].code
        /\ Last(History(TheSession)).Code = task[t].code
        /\ Last(Blocks(logs[TheSession])).text = task[t].code
        /\ DOMAIN sessions[TheSession].State.Env = EnvKeys

\* the lines the claim names, for one entry
ShellAssignment(k, v) == <<"export ">> \o k \o <<"=", "\"">> \o v \o <<"\"", "\n">>
PythonAssignment(k, v) ==
    <<"os.environ[", "\"">> \o k \o <<"\"", "] = ", "\"">> \o v \o <<"\"", "\n">>

\* the ways to list each key of env exactly once
Listings(env) ==
    {p \in [1..Cardinality(DOMAIN env) -> DOMAIN env] : \A k \in DOMAIN env : \E i \in DOMAIN p : p[i] = k}

RECURSIVE ShellLines(_, _, _)
ShellLines(env, p, i) ==
    IF i > Len(p) THEN << >> ELSE ShellAssignment(p[i], env[p[i]]) \o ShellLines(env, p, i + 1)
RECURSIVE PythonLines(_, _, _)
PythonLines(env, p, i) ==
    IF i > Len(p) THEN << >> ELSE PythonAssignment(p[i], env[p[i]]) \o PythonLines(env, p, i + 1)

\* full is what the claim says is submitted for code, env and language
AsClaimed(full, code, env, language) ==
    IF DOMAIN env = {} THEN full = code
    ELSE IF language \in {"bash", "shell", "sh"}
    THEN \E p \in Listings(env) : full = ShellLines(env, p, 1) \o code
    ELSE IF language \in {"python", "python3"}
    THEN \E p \in Listings(env) : full = <<"import os\n">> \o PythonLines(env, p, 1) \o code
    ELSE full = code

\* C14: the code an Execute submits is determined by the request's code and
\* the session's env and language: for bash, shell and sh one export line
\* per entry of env, each key once, in some order, then the code; for python
\* and python3 "import os", one os.environ assignment per entry, then the
\* code; for any other language, and for an empty env, the code alone.
C14_SubmittedCode ==
    [][\A t \in Tasks :
          (task[t].pc = "idle" /\ task'[t].pc = "ready")
              => AsClaimed(task'[t].fullCode, task'[t].code,
                           sessions[task'[t].sid].State.Env,
                           sessions[task'[t].sid].Language)]_vars

\* requests in the client on a session with both keys set: one with the two
\* lines of the preamble in one order, one with them in the other
C14_Witness ==
    /\ DOMAIN sessions[TheSession].State.Env = EnvKeys
    /\ sessions[TheSession].Language \in {"python", "python3"}
    /\ task[1].pc = "ready" /\ task[2].pc = "ready"
    /\ task[1].code = task[2].code
    /\ Len(task[1].fullCode) = Len(task[2].fullCode)
    /\ Len(task[1].fullCode) = Len(task[1].code) + 1 + 2 * Len(PythonAssignment(<<"FOO">>, <<"bar">>))
    /\ task[1].fullCode # task[2].fullCode
    /\ Head(task[1].fullCode) = "import os\n"

\* line occurs in text
Contains(text, line) ==
    \E i \in 1..(Len(text) - Len(line) + 1) : SubSeq(text, i, i + Len(line) - 1) = line

\* C15: an Execute that starts after a successful SetEnv submits code that
\* sets every key of the session's env to its latest value, whatever the
\* language of the session.
C15_EnvAvailable ==
    [][\A t \in Tasks :
          (task[t].pc = "idle" /\ task'[t].pc = "ready")
              => \A k \in DOMAIN sessions[task'[t].sid].State.Env :
                    \/ Contains(task'[t].fullCode,
                                ShellAssignment(k, sessions[task'[t].sid].State.Env[k]))
                    \/ Contains(task'[t].fullCode,
                                PythonAssignment(k, sessions[task'[t].sid].State.Env[k]))]_vars

\* C16: right after a CreateSession that succeeded the new session is
\* registered, active, with no env entry and no history entry; its log file
\* exists and is empty; and its snapshot file holds that state.
C16_FreshSession ==
    [][\A path \in Paths, language \in Languages, name \in Names, n \in Rand :
          (~CreateRejected(path, language)
           /\ CreateSession(path, language, name, n, "ok", "ok"))
              => LET id == generateID("sess", n)
                 IN  /\ id \in DOMAIN sessions'
                     /\ sessions'[id].ID = id
                     /\ sessions'[id].Language = language
                     /\ sessions'[id].Status = "active"
                     /\ DOMAIN sessions'[id].State.Env = {}
                     /\ sessions'[id].State.History = << >>
                     /\ sessions'[id].LogFile \in DOMAIN logs'
                     /\ logs'[sessions'[id].LogFile] = << >>
                     /\ id \in DOMAIN disk' /\ disk'[id].ok
                     /\ UnmarshalSession(disk'[id].doc) = sessions'[id]]_vars

\* a session as CreateSession leaves it, beside one that has been used
C16_Witness ==
    \E id, y \in DOMAIN sessions :
        /\ sessions[id].Status = "active" /\ sessions[id].State.History = << >>
        /\ DOMAIN sessions[id].State.Env = {}
        /\ logs[id] = << >>
        /\ id \in DOMAIN disk
        /\ disk[id] = [ok |-> TRUE, doc |-> MarshalSession(sessions[id])]
        /\ Len(History(y)) = 1 /\ sessions[y].Status = "closed"

\* C17: a CreateSession that fails, the log file or the snapshot not having
\* been written, registers nothing: the sessions in memory are those of
\* before the call.
C17_CreateAllOrNothing ==
    [][\A path \in Paths, language \in Languages, name \in Names, n \in Rand,
          wl \in {"ok", "error"}, ws \in WriteOutcomes :
          (~CreateRejected(path, language) /\ (wl # "ok" \/ ws # "ok")
           /\ CreateSession(path, language, name, n, wl, ws))
              => sessions' = sessions]_vars

\* C18: on the three paths a create request whose language is not in the
\* language map is rejected before the store is touched, no session
\* registered, no snapshot or log file written; so every session registered
\* by a request has a language of the map.
C18_UnsupportedRejected ==
    [][/\ \A path \in Paths, language \in Languages \ DOMAIN LanguageMap, name \in Names,
             n \in Rand :
             CreateSession(path, language, name, n, "ok", "ok")
                 => UNCHANGED <<sessions, disk, logs, faults>>
       /\ \A id \in DOMAIN sessions' : sessions'[id].Language \in DOMAIN LanguageMap]_vars

\* every id is registered, each by a request whose language is in the map,
\* where the requests for a language that is not are ones the handlers reject
C18_Witness ==
    /\ DOMAIN sessions = SessIDs
    /\ \A id \in SessIDs : sessions[id].Language \in DOMAIN LanguageMap
    /\ \A path \in Paths : CreateRejected(path, "cobol") /\ ~CreateRejected(path, "bash")
    /\ "cobol" \in Languages

C20_CloseIdempotent ==
    [][\A id \in DOMAIN sessions, path \in Paths :
          (sessions[id].Status = "closed" /\ CloseSession(path, id, "ok"))
              => /\ CloseSessionErr(id, "ok") = "none"
                 /\ id \in DOMAIN sessions'
                 /\ sessions'[id].Status = "closed"
                 /\ sessions'[id].State = sessions[id].State]_vars

\* a closed session that has a variable and an execution and whose snapshot
\* on disk shows it closed, in a run where a file operation has failed (when
\* that was the write of the first close, the second close is what brings
\* the snapshot to closed)
C20_Witness ==
    \E id \in DOMAIN sessions :
        /\ sessions[id].Status = "closed"
        /\ DOMAIN sessions[id].State.Env # {}
        /\ Len(History(id)) > 0
        /\ faults = MaxFaults
        /\ id \in DOMAIN disk /\ disk[id].ok
        /\ disk[id].doc = MarshalSession(sessions[id])

\* C21: an Execute for which the client returns a result appends one entry
\* to the history of its session and one block to its log, after those that
\* were there, and the output, stderr and exit code of the entry are the
\* ones the handler answers with.
C21_OneEntryOneBlock ==
    [][\A t \in Tasks :
          (task[t].pc = "ready" /\ task'[t].pc = "done")
              => LET id == task[t].sid
                     h  == sessions'[id].State.History
                 IN  /\ Len(h) = Len(History(id)) + 1
                     /\ IsPrefix(History(id), h)
                     /\ Len(Blocks(logs'[id])) = Len(Blocks(logs[id])) + 1
                     /\ IsPrefix(logs[id], logs'[id])
                     /\ Last(h).Output = task'[t].result.Stdout
                     /\ Last(h).Stderr = task'[t].result.Stderr
                     /\ Last(h).ExitCode = task'[t].result.ExitCode
                     /\ task'[t].result \in EngineResults]_vars

\* an Execute on an active session has answered with what the program wrote
\* to stderr and its exit code 1, and the one entry of the history and the
\* one block of the log hold them
C21_Witness ==
    \E id \in DOMAIN sessions :
        /\ sessions[id].Status = "active"
        /\ task[1].pc = "done" /\ task[1].sid = id
        /\ task[1].result.Stderr = <<"boom">> /\ task[1].result.ExitCode = 1
        /\ Len(History(id)) = 1 /\ Len(Blocks(logs[id])) = 1
        /\ History(id)[1].Stderr = <<"boom">> /\ History(id)[1].ExitCode = 1
        /\ \E i \in DOMAIN logs[id] : logs[id][i] = [kind |-> "stderr", text |-> <<"boom">>]

\* C22, as claimed: an Execute that got a result from the engine and whose
\* AddExecution failed answers with the result and returns no error, on the
\* three paths.
C22_RecordFailureIsSuccess ==
    \A t \in Tasks :
        (task[t].pc = "done" /\ task[t].recErr # "none")
            => task[t].result \in EngineResults /\ task[t].err = "none"

\* C22: an Execute that got a result from the engine and whose AddExecution
\* failed answers with the result, and the error of AddExecution is not what
\* it returns: handleExecute and invokeMCPExecute return no error, and
\* execCmd returns none but "exit code: N", which it returns for a result
\* with an exit code other than 0 whether the recording failed or not.
C22_RecordFailureNotReturned ==
    \A t \in Tasks :
        (task[t].pc = "done" /\ task[t].recErr # "none")
            => /\ task[t].result \in EngineResults
               /\ task[t].err \in {"none", "exit_code"}
               /\ task[t].err = "exit_code"
                      => task[t].path = "cli" /\ task[t].result.ExitCode # 0
               /\ task[t].path # "cli" => task[t].err = "none"
               /\ task[t].result.ExitCode = 0 => task[t].err = "none"

\* the log file could not be opened, and the tool has answered with the
\* program's output and no error
C22_Witness ==
    /\ task[1].pc = "done" /\ task[1].recErr = "log_file" /\ task[1].path = "mcp"
    /\ task[1].err = "none" /\ task[1].result.Stdout = <<"hi">>
    /\ faults = 1

\* C23: the env of a closed session is frozen: a SetEnv request for a
\* session whose status is closed, over HTTP or the tool, changes neither
\* the env of the session in memory nor its snapshot file.
C23_EnvFrozenWhenClosed ==
    [][\A path \in {"http", "mcp"}, id \in DOMAIN sessions, key \in Keys, value \in Values :
          (sessions[id].Status = "closed" /\ SetEnv(path, id, key, value, "ok"))
              => /\ sessions'[id].State.Env = sessions[id].State.Env
                 /\ At(disk', id) = At(disk, id)]_vars

\* C24: the history and the log of a closed session are frozen: no request
\* served while the status of a session is closed changes its history or its
\* log file, an Execute that was in the client when the session was closed
\* included.
C24_HistoryFrozenWhenClosed ==
    [][\A id \in DOMAIN sessions :
          sessions[id].Status = "closed"
              => \/ Restart
                 \/ /\ id \in DOMAIN sessions'
                    /\ sessions'[id].State.History = History(id)
                    /\ At(logs', sessions[id].LogFile) = At(logs, sessions[id].LogFile)]_vars

\* the last n lines of content, all of it when it has fewer
LastLines(content, n) ==
    IF Len(content) <= n THEN content
    ELSE SubSeq(content, Len(content) - n + 1, Len(content))

\* the values of lines the requests are tried with
LineArgs == {-1, 0, 1, 2, DefaultLines}

\* C25: GetLog(id, n) returns the last n lines of the log of the session for
\* n > 0, all of them when the log has fewer, and the whole log for n <= 0.
C25_LastLines ==
    \A id \in DOMAIN sessions, n \in LineArgs :
        GetLog(id, n).err = "none"
            => GetLog(id, n).content =
                   IF n > 0 THEN LastLines(logs[sessions[id].LogFile], n)
                   ELSE logs[sessions[id].LogFile]

\* C30: the entries of a history are in the order of their start times: of
\* two entries the earlier one in the history has the earlier or the same
\* Time, whatever the order in which overlapping Execute calls return.
C30_Chronological ==
    \A id \in DOMAIN sessions :
        \A i, j \in DOMAIN History(id) :
            i < j => History(id)[i].Time <= History(id)[j].Time

\* C29: a start of the store over a data directory that holds snapshot files
\* some of which do not parse registers every file that parses, under the id
\* it holds and with the content it holds, registers nothing for the others,
\* and leaves the files as they are.
C29_BadSnapshotsSkipped ==
    [][Restart => /\ DOMAIN sessions' = {id \in DOMAIN disk : disk[id].ok}
                  /\ \A id \in DOMAIN sessions' :
                        /\ sessions'[id] = UnmarshalSession(disk[id].doc)
                        /\ sessions'[id].ID = id
                  /\ disk' = disk /\ logs' = logs]_vars

\* a store started over two snapshot files, one cut short by a failed write:
\* the session of the other one is registered, with its execution
C29_Witness ==
    \E good, bad \in DOMAIN disk :
        /\ disk[good].ok /\ ~disk[bad].ok
        /\ DOMAIN sessions = {good}
        /\ sessions[good] = UnmarshalSession(disk[good].doc)
        /\ Len(History(good)) = 1

\* where a request of SpecLock is: in the client, or inside a store
\* operation that writes or that reads
InClient(p) == call[p].pc \in {"submitting", "polling", "sleeping"}
InWrite(p)  == call[p].pc = "locked"
InRead(p)   == call[p].pc = "rlocked"

\* C26: a request that is in the client (submitting, waiting for the answer
\* to a poll, sleeping between polls) holds the lock of the store neither
\* for reading nor for writing; the lock is held only by requests that are
\* inside a store operation, so it is never a request in the client that
\* keeps another operation waiting.
C26_NoLockInClient ==
    /\ \A p \in Procs : InClient(p) => p \notin mu.readers /\ mu.writer # p
    /\ \A p \in mu.readers : InRead(p)
    /\ mu.writer # 0 => InWrite(mu.writer)

\* a SetEnv holds the lock of the store for a session on which one Execute
\* is sleeping between two polls and another is submitting
C26_Witness ==
    \E p, q, r \in Procs :
        /\ call[p].pc = "sleeping" /\ call[r].pc = "submitting"
        /\ call[q].pc = "locked" /\ call[q].op = "setenv" /\ mu.writer = q
        /\ call[q].id = call[p].id /\ call[r].id = call[p].id

\* the operations that change the store, and those of them that have returned
Mutations == {"execute", "setenv", "close", "create"}
Completed == {p \in Procs : call[p].pc = "done" /\ call[p].op \in Mutations}

\* the store after the operation of call c, applied on its own to store S
ApplyCall(S, c) ==
    CASE c.op = "setenv"  -> StoreSetEnv(S, c.id, c.key, c.value)
      [] c.op = "close"   -> StoreClose(S, c.id)
      [] c.op = "create"  -> StoreCreate(S, c.id, "bash", EmptyStr)
      [] c.op = "execute" ->
            IF c.id \in DOMAIN S.sessions
            THEN StoreAddExecution(S, c.id, c.exec, S.sessions[c.id].State.History)
            ELSE S

\* the store after the operations of the calls of order, one after the other
RECURSIVE ApplyAll(_, _)
ApplyAll(S, order) ==
    IF order = << >> THEN S ELSE ApplyAll(ApplyCall(S, call[Head(order)]), Tail(order))

\* the ways to put the elements of D in a row
Arrangements(D) ==
    {o \in Seq1(D) : Len(o) = Cardinality(D) /\ \A d \in D : \E i \in DOMAIN o : o[i] = d}

\* the store the requests of SpecLock start from
InitialStore ==
    [sessions |-> (TheSession :> NewSession(TheSession, "bash", EmptyStr)),
     disk |-> (TheSession :>
                  [ok |-> TRUE, doc |-> MarshalSession(NewSession(TheSession, "bash", EmptyStr))]),
     logs |-> (TheSession :> << >>)]

\* C27: the operations that change the store exclude each other and the
\* readers: at most one request is between the Lock and the Unlock of
\* AddExecution, SetEnv, CloseSession or CreateSession, and then none is
\* inside GetSession or ListSessions.  And the store (sessions in memory,
\* snapshot files, log files) is at any time what the operations that have
\* returned give when applied one at a time in some order, so that the
\* snapshot of a session holds the effects of all of them.
C27_Linearized ==
    /\ Cardinality({p \in Procs : InWrite(p)}) <= 1
    /\ (\E p \in Procs : InWrite(p)) => ~(\E q \in Procs : InRead(q))
    /\ \E order \in Arrangements(Completed) : ApplyAll(InitialStore, order) = StoreNow
    /\ \A id \in DOMAIN sessions :
          disk[id] = [ok |-> TRUE, doc |-> MarshalSession(sessions[id])]

\* an Execute, a SetEnv and a CloseSession on one session have all returned:
\* the session is closed, has the variable and the execution, and its
\* snapshot says the same
C27_Witness ==
    \E p, q, r \in Procs :
        /\ call[p].pc = "done" /\ call[q].pc = "done" /\ call[r].pc = "done"
        /\ call[p].op = "execute" /\ call[q].op = "setenv" /\ call[r].op = "close"
        /\ call[p].id = TheSession /\ call[q].id = TheSession /\ call[r].id = TheSession
        /\ sessions[TheSession].Status = "closed"
        /\ DOMAIN sessions[TheSession].State.Env = Keys
        /\ Len(History(TheSession)) = 1
        /\ disk[TheSession].doc = MarshalSession(sessions[TheSession])

\* C28: what ListSessions and GetSession have returned is a copy: the
\* sessions reached through a list, or through a session, that a request
\* has been handed stay as they were when it was returned, whatever SetEnv,
\* AddExecution and CloseSession do afterwards.
C28_ReturnedIsCopy ==
    [][\A p \in Procs :
          (call[p].pc = "returned" /\ call'[p].pc = "returned")
              => \A id \in call[p].ret : sessions'[id] = sessions[id]]_vars

\* C31: a session's log file is append-only while the session exists: across
\* every step (AddExecution, SetEnv, CloseSession, CreateSession, restart) the
\* log of each registered session is still there and has its earlier content
\* as a prefix.
C31_LogAppendOnly ==
    [][\A id \in DOMAIN sessions :
          LET f == sessions[id].LogFile
          IN  f \in DOMAIN logs
                  => /\ f \in DOMAIN logs'
                     /\ IsPrefix(logs[f], logs'[f])]_vars

\* C32: the duration stored in the execution record covers the whole cycle of
\* submit, poll and record: when AddExecution has completed, the recorded
\* duration is the time from the start of the Execute to that moment.
C32_DurationCoversRecord ==
    [][\A p \in Procs :
          (call[p].op = "execute" /\ call[p].pc = "locked" /\ call'[p].pc = "done")
              => Last(sessions'[call[p].id].State.History).Duration
                     = clock' - call[p].start]_vars

\* C33: CloseSession keeps the record of the session: only the status
\* changes; the id, name, language, env, history and the content of the log
\* are the same, and GetSession, ListSessions and GetLog still answer with
\* the session afterwards.
C33_CloseKeepsRecord ==
    [][\A id \in DOMAIN sessions, path \in Paths :
          CloseSession(path, id, "ok")
              => /\ id \in DOMAIN sessions'
                 /\ sessions'[id] = [sessions[id] EXCEPT !.Status = "closed"]
                 /\ logs' = logs
                 /\ GetSession(id)' = [err |-> "none", session |-> sessions'[id]]
                 /\ sessions'[id] \in ListSessions'
                 /\ GetLog(id, DefaultLines)'
                        = [err |-> "none", content |-> logs[sessions[id].LogFile]]
                 /\ id \in DOMAIN loadSessions(disk')]_vars

\* a closed session that still shows its variable and its execution, and
\* whose log still holds the block of that execution
C33_Witness ==
    \E id \in DOMAIN sessions :
        /\ sessions[id].Status = "closed"
        /\ DOMAIN sessions[id].State.Env # {}
        /\ Len(History(id)) = 1
        /\ GetLog(id, DefaultLines).err = "none"
        /\ GetLog(id, DefaultLines).content = LogEntry(History(id)[1])
        /\ GetSession(id).session \in ListSessions

\* C35: memory and disk agree at rest: between the operations, whatever
\* operations ran before and whether or not they returned a persistence
\* error, each registered session has a snapshot, and the status, env and
\* history that the snapshot holds are those of the session in memory.
C35_MemoryMatchesDisk ==
    \A id \in DOMAIN sessions :
        /\ id \in DOMAIN loadSessions(disk)
        /\ Kept(loadSessions(disk)[id]) = Kept(sessions[id])

\* C36: a mutating store operation that returns an error leaves the session
\* in memory as it was: when AddExecution, SetEnv or CloseSession fails (the
\* session is not found, the log file cannot be opened, the snapshot cannot
\* be written), the history, env and status of every session are those from
\* before the call.
C36_ErrorLeavesMemory ==
    [][/\ \A path \in {"http", "mcp"}, id \in SessIDs, key \in Keys, value \in Values,
             ws \in WriteOutcomes \ {"ok"} :
             SetEnv(path, id, key, value, ws) => sessions' = sessions
       /\ \A path \in Paths, id \in SessIDs, ws \in WriteOutcomes :
             (CloseSessionErr(id, ws) # "none" /\ CloseSession(path, id, ws))
                 => sessions' = sessions
       /\ \A t \in Tasks :
             (task[t].pc = "ready" /\ task'[t].pc = "done" /\ task'[t].recErr # "none")
                 => sessions' = sessions]_vars

\* C38: a transport or decode error on a poll ends the Execute at once with
\* an error: the client returns the error of the poll without polling or
\* sleeping again and without turning it into a timeout, and the handler
\* answers with that error and records nothing in the history, the snapshot
\* or the log.
C38_PollErrorAborts ==
    [][/\ \A o \in PollOutcomes :
             (o.stage \in {"request", "transport", "decode"} /\ Poll(o))
                 => client' = [client EXCEPT !.pc = "failed", !.err = "poll"]
       /\ client.err = "poll"
             => /\ client' = client
                /\ UNCHANGED <<sessions, disk, logs>>
                /\ task'[1] \in {task[1], Fail("poll")}
       /\ task'[1].err = "poll"
             => \A id \in DOMAIN sessions' :
                   sessions'[id].State.History = << >> /\ logs'[id] = << >>]_vars

\* an Execute that failed with the error of its third poll, after two polls
\* that found the job running, and that left no entry
C38_Witness ==
    /\ task[1].pc = "failed" /\ task[1].err = "poll"
    /\ client.pc = "failed" /\ client.err = "poll"
    /\ client.polls = 2 /\ client.sleeps = 2
    /\ \A id \in DOMAIN sessions : History(id) = << >>

\* C34: every read that a request makes of the mutable state of a session
\* (env, history, status) is made under the lock of the store, so that it
\* never overlaps a write: while a request builds the injected code from the
\* env of a session, or encodes a session for a get or list response, no
\* SetEnv, AddExecution or CloseSession is between its Lock and its Unlock
\* on that session.
C34_ReadsNeverOverlapWrites ==
    \A p \in Procs :
        Reading(p) =>
            \A q \in Procs :
                (InWrite(q) /\ call[q].op \in {"setenv", "execute", "close"})
                    => call[q].id \notin call[p].ret

\* a request is in a call of the store: it waits for the lock or holds it
InStore(p) == call[p].pc \in {"rlocked", "locked", "adding"}

\* C37: the store never deadlocks: under fair scheduling every call of the
\* store, whatever the other requests do, eventually returns (with or
\* without an error), and a lock that is held is eventually free again, so
\* that no call waits for it for ever.
C37_StoreCallsReturn ==
    /\ \A p \in Procs : InStore(p) ~> ~InStore(p)
    /\ (mu # FreeLock) ~> (mu = FreeLock)

\* a SetEnv on a session that does not exist has returned its error, and
\* after it an Execute got the write lock for its AddExecution and returned,
\* with the lock free again
C37_Witness ==
    \E p, q \in Procs :
        /\ call[p].op = "setenv" /\ call[p].pc = "failed"
        /\ call[q].op = "execute" /\ call[q].pc = "done"
        /\ Len(History(call[q].id)) = 1
        /\ mu = FreeLock

=============================================================================
